---- MODULE Spec2Model ----
(***************************************************************************)
(* ecs-exec-cli (src/index.ts): one run of the interactive helper, from    *)
(* the optional MFA exchange to the final `aws ecs execute-command` child. *)
(*                                                                         *)
(* Encoding.  A JavaScript value that may be undefined/null is a sequence  *)
(* of length 0 (undefined) or 1 (the value): Undefined and Some(v).        *)
(* Strings the code takes apart with a regular expression or compares      *)
(* character by character (cluster ARNs, the --cluster hint, task          *)
(* definition ARNs, launch types, choice labels) are sequences of          *)
(* one-character strings; opaque strings (task ARNs, container names,      *)
(* keys, shells, the MFA code) are TLA+ strings.  The characters U+2028    *)
(* and U+2029 are written LS and PS.  Array indices are the                *)
(* JavaScript ones (0-based, -1 for "not found").                          *)
(***************************************************************************)
EXTENDS Integers, Sequences, FiniteSets, TLC

VARIABLES
    argv,          \* parsed command line: [mfa, cluster, test]
    credentials,   \* AWS.config.credentials: Undefined or Some([accessKeyId, secretAccessKey])
    pc,            \* the await at which run() is suspended, or "done"
    clusterArns,   \* run(): result of listClusters()
    cluster,       \* run(): the resolved cluster value
    tasks,         \* run(): result of listTasks(cluster)
    res,           \* run(): result of askTasks(tasks): [task, index]
    selectedTask,  \* run(): tasks[res.index]
    containers,    \* run(): findExecuteCommandContainer(selectedTask)
    containerName, \* run(): the container passed to the final launch
    execFolder,    \* testConfig(): the temporary folder path
    execPath,      \* testConfig(): the script path inside it
    fs,            \* the paths that exist on disk, among those testConfig touches
    log,           \* every prompt, external call and child process started, in order
    picked,        \* the 0-based positions the operator chose: [cluster, task, container]
    failedAt,      \* Len(log) when a step of the run first failed, 0 if none has
    childExit,     \* exit codes of the children that closed: [test, exec]
    mfaCode,       \* run(): the answer of askMFA(), "" before it
    result,        \* what run() resolved to once pc = "done": Undefined or Some(1)
    err,           \* message of the error run() caught, "" if none
    exitCode       \* exit code of the node process once run() has settled, else -1

vars == <<argv, credentials, pc, clusterArns, cluster, tasks, res, selectedTask,
          containers, containerName, execFolder, execPath, fs, log, picked,
          failedAt, childExit, mfaCode, result, err, exitCode>>

----------------------------------------------------------------------------
(* JavaScript values *)

Undefined == <<>>
Some(v) == <<v>>
IsDefined(o) == Len(o) = 1
Val(o) == o[1]

\* Bounds of the model: the longest cluster list and the longest task list the
\* cloud API returns.
MaxClusters == 2
MaxTasks == 2

\* All sequences over S of length at most n.
SeqsUpTo(S, n) == UNION {[1..k -> S] : k \in 0..n}

\* Those without a repeated element: one answer of the cloud API does not list
\* the same cluster or the same task twice.
DistinctSeqsUpTo(S, n) ==
    {s \in SeqsUpTo(S, n) : \A i, j \in 1..Len(s) : i # j => s[i] # s[j]}

\* Array.prototype.indexOf: 0-based position of the first element equal to x,
\* or -1.
indexOf(arr, x) ==
    LET hits == {i \in 1..Len(arr) : arr[i] = x}
    IN  IF hits = {} THEN -1
        ELSE (CHOOSE i \in hits : \A j \in hits : i <= j) - 1

\* Array.prototype.includes
includes(arr, x) == \E i \in 1..Len(arr) : arr[i] = x

\* arr[i] for a JavaScript index i: undefined outside the array.
At(arr, i) == IF i + 1 \in 1..Len(arr) THEN Some(arr[i + 1]) ELSE Undefined

\* Array.prototype.filter is SelectSeq; Array.prototype.map is written out as
\* [i \in 1..Len(arr) |-> f(arr[i])].

----------------------------------------------------------------------------
(* Friendly names: String.prototype.replace with /^(.+)<marker>/ *)

\* U+2028 LINE SEPARATOR and U+2029 PARAGRAPH SEPARATOR, each one character.
LS == "U+2028"
PS == "U+2029"

\* The characters '.' does not match: LF, CR, U+2028, U+2029.
LineTerminators == {"\n", "\r", LS, PS}

\* Truthiness of a string held as a sequence of characters, and of an opaque
\* string: undefined and the empty string are falsy.
Truthy(str) == IsDefined(str) /\ Val(str) # <<>>
TruthyOpaque(str) == IsDefined(str) /\ Val(str) # ""

\* s.replace(/^(.+)marker/, ""): (.+) is greedy and needs at least one
\* character, none of them a line terminator, so the match ends with the last
\* occurrence of marker that starts at position 2 or later of a prefix without
\* line terminators; without such an occurrence s is returned unchanged.
replacePrefixThrough(s, marker) ==
    LET n == Len(marker)
        hits == {k \in 2..(Len(s) - n + 1) :
                    /\ SubSeq(s, k, k + n - 1) = marker
                    /\ \A j \in 1..(k - 1) : s[j] \notin LineTerminators}
    IN  IF hits = {} THEN s
        ELSE LET k == CHOOSE h \in hits : \A g \in hits : g <= h
             IN  SubSeq(s, k + n, Len(s))

ClusterMarker == <<"c", "l", "u", "s", "t", "e", "r", "/">>
TaskDefMarker == <<"t", "a", "s", "k", "-", "d", "e", "f", "i", "n", "i", "t", "i", "o", "n", "/">>

clusterFriendlyName(clusterArn) == replacePrefixThrough(clusterArn, ClusterMarker)
taskDefFriendlyName(taskDefinitionArn) == replacePrefixThrough(taskDefinitionArn, TaskDefMarker)

----------------------------------------------------------------------------
(* Inputs: what the command line, the environment, the cloud API and the   *)
(* operator can supply.                                                    *)

\* Cluster ARNs listClusters can return.  ArnProdEast and ArnProdWest have the
\* same friendly name; ArnBare has no "cluster/" segment, so it is its own
\* friendly name, and equals the friendly name of the two before;
\* ArnNested holds the marker twice; ArnNoName ends with the marker, so its
\* friendly name is the empty string; ArnTwoLines has a line separator before
\* the marker, so the expression does not match and it is its own friendly
\* name.
ArnProdEast == <<"e", ":">> \o ClusterMarker \o <<"p">>
ArnProdWest == <<"w", ":">> \o ClusterMarker \o <<"p">>
ArnBare == <<"p">>
ArnNested == <<"e", ":">> \o ClusterMarker \o ClusterMarker \o <<"q">>
ArnNoName == <<"e", ":">> \o ClusterMarker
ArnTwoLines == <<"e", LS>> \o ClusterMarker \o <<"p">>
ClusterArnPool == {ArnProdEast, ArnProdWest, ArnBare, ArnNested, ArnNoName, ArnTwoLines}

\* The part of them the whole-run specification draws from.
RunClusterArnPool == {ArnProdEast, ArnProdWest, ArnBare}

\* Values of --cluster: absent, empty, a friendly name, an ARN, and strings
\* that match nothing.
ClusterHints ==
    {Undefined, Some(<<>>), Some(<<"p">>), Some(<<"q">>), Some(ArnProdWest), Some(<<"z">>)}
RunClusterHints == {Undefined, Some(<<"p">>)}

\* The credentials the SDK found in the environment, if any.
AmbientCredentials == [accessKeyId |-> "AKIA-ambient", secretAccessKey |-> "secret-ambient"]

\* What sts.getSessionToken returns in token.Credentials on success.
StsCredentials ==
    [AccessKeyId |-> "ASIA-session", SecretAccessKey |-> "secret-session",
     SessionToken |-> "token", Expiration |-> "later"]

\* Answers to the MFA prompt.
MfaCodes == {"", "123456"}

----------------------------------------------------------------------------
(* The log of what the run started *)

Prompt(name, choices) == [kind |-> "prompt", name |-> name, args |-> choices]
Call(name, args) == [kind |-> "call", name |-> name, args |-> args]
Spawn(cmd, args, env) == [kind |-> "spawn", name |-> cmd, args |-> args, env |-> env]

Started(kind, name) == \E i \in 1..Len(log) : log[i].kind = kind /\ log[i].name = name

----------------------------------------------------------------------------
(* How run() settles *)

\* `run();` at the end of the file: the promise run() returns is dropped, the
\* process exit code is never set, and node exits with 0 once nothing is
\* pending.
ProcessExitCode(runResult) == 0

\* catch (e) { console.log(chalk.red(e.message)); return 1; }
Throw(message) ==
    /\ pc' = "done"
    /\ result' = Some(1)
    /\ err' = message
    /\ exitCode' = ProcessExitCode(Some(1))

\* run() falls off the end of its try block: it resolves to undefined.
Return ==
    /\ pc' = "done"
    /\ result' = Undefined
    /\ err' = ""
    /\ exitCode' = ProcessExitCode(Undefined)

Goto(next) ==
    /\ pc' = next
    /\ UNCHANGED <<result, err, exitCode>>

InitWith(flags, hints, ambient) ==
    /\ argv \in [mfa : flags, cluster : hints, test : flags]
    /\ credentials \in ambient
    /\ pc = IF argv.mfa THEN "askMFA" ELSE "listClusters"
    /\ clusterArns = Undefined
    /\ cluster = Undefined
    /\ tasks = Undefined
    /\ res = Undefined
    /\ selectedTask = Undefined
    /\ containers = <<>>
    /\ containerName = Undefined
    /\ execFolder = Undefined
    /\ execPath = Undefined
    /\ fs = {}
    /\ log = <<>>
    /\ picked = [cluster |-> -1, task |-> -1, container |-> -1]
    /\ failedAt = 0
    /\ childExit = [test |-> Undefined, exec |-> Undefined]
    /\ mfaCode = ""
    /\ result = Undefined
    /\ err = ""
    /\ exitCode = -1

\* A run with any flags, with or without ambient credentials.
Init == InitWith(BOOLEAN, RunClusterHints, {Undefined, Some(AmbientCredentials)})

\* A run with --no-mfa --no-test and ambient credentials, with any hint.
InitCluster == InitWith({FALSE}, ClusterHints, {Some(AmbientCredentials)})

----------------------------------------------------------------------------
(* Credential refresh *)

\* askMFA(): the operator cancels the prompt, or enters a code (possibly the
\* empty one).  run() calls mfaTokens only for a non-empty code.
AskMFA ==
    /\ pc = "askMFA"
    /\ log' = Append(log, Prompt("mfaCode", <<>>))
    /\ \/ /\ Throw("prompt cancelled")
          /\ failedAt' = Len(log')
          /\ UNCHANGED mfaCode
       \/ \E code \in MfaCodes :
            /\ mfaCode' = code
            /\ Goto(IF code # "" THEN "mfaListDevices" ELSE "listClusters")
            /\ UNCHANGED failedAt
    /\ UNCHANGED <<argv, credentials, clusterArns, cluster, tasks, res, selectedTask,
                   containers, containerName, execFolder, execPath, fs, picked,
                   childExit>>

\* The catch block of mfaTokens: it prints the cause and throws "MFA failed".
mfaTokensCatchSwallows == [rethrow |-> FALSE, message |-> ""]
mfaTokensCatch == [rethrow |-> TRUE, message |-> "MFA failed"]

\* After a failure inside mfaTokens.
MfaFailed ==
    /\ failedAt' = Len(log')
    /\ IF mfaTokensCatch.rethrow
         THEN Throw(mfaTokensCatch.message)
         ELSE Goto("listClusters")

\* iam.listMFADevices(): the call fails, or returns no device, or some.
MfaListDevices ==
    /\ pc = "mfaListDevices"
    /\ log' = Append(log, Call("listMFADevices", <<>>))
    /\ \E outcome \in {"error", "noDevice", "devices"} :
         IF outcome = "devices"
           THEN Goto("mfaGetSessionToken") /\ UNCHANGED failedAt
           ELSE MfaFailed
    /\ UNCHANGED <<argv, credentials, clusterArns, cluster, tasks, res, selectedTask,
                   containers, containerName, execFolder, execPath, fs, picked,
                   childExit, mfaCode>>

\* The assignment to AWS.config.credentials in mfaTokens: only when the
\* response carries Credentials, and only the two keys are kept.
credentialsAssignedUnchecked(old, token) ==
    IF IsDefined(token)
      THEN Some([accessKeyId |-> Val(token).AccessKeyId,
                 secretAccessKey |-> Val(token).SecretAccessKey])
      ELSE Undefined
credentialsAfterToken(old, token) ==
    IF IsDefined(token)
      THEN Some([accessKeyId |-> Val(token).AccessKeyId,
                 secretAccessKey |-> Val(token).SecretAccessKey])
      ELSE old

\* sts.getSessionToken(): the call fails (the code is rejected), or answers
\* without Credentials, or answers with them.
MfaGetSessionToken ==
    /\ pc = "mfaGetSessionToken"
    /\ log' = Append(log, Call("getSessionToken", <<mfaCode>>))
    /\ \/ /\ MfaFailed
          /\ UNCHANGED credentials
       \/ \E token \in {Undefined, Some(StsCredentials)} :
            /\ credentials' = credentialsAfterToken(credentials, token)
            /\ IF IsDefined(token)
                 THEN Goto("listClusters") /\ UNCHANGED failedAt
                 ELSE MfaFailed
    /\ UNCHANGED <<argv, clusterArns, cluster, tasks, res, selectedTask,
                   containers, containerName, execFolder, execPath, fs, picked,
                   childExit, mfaCode>>

----------------------------------------------------------------------------
(* Clusters *)

\* listClusters(): the call fails, or answers without clusterArns ("No
\* clusters found"), or with a list.
ListClustersFrom(lists) ==
    /\ pc = "listClusters"
    /\ log' = Append(log, Call("listClusters", <<>>))
    /\ \/ /\ Throw("listClusters failed")
          /\ failedAt' = Len(log')
          /\ UNCHANGED clusterArns
       \/ /\ Throw("No clusters found")
          /\ failedAt' = Len(log')
          /\ UNCHANGED clusterArns
       \/ \E arns \in lists :
            /\ clusterArns' = Some(arns)
            /\ Goto("askCluster")
            /\ UNCHANGED failedAt
    /\ UNCHANGED <<argv, credentials, cluster, tasks, res, selectedTask,
                   containers, containerName, execFolder, execPath, fs, picked,
                   childExit, mfaCode>>

\* clusterArns.map((ca) => clusterFriendlyName(ca))
clusterNamesOf(arns) == [i \in 1..Len(arns) |-> clusterFriendlyName(arns[i])]

\* In a whole run: a list of distinct ARNs.  In cluster resolution alone: any
\* list over the wide pool, repetitions included.
ListClusters == ListClustersFrom(DistinctSeqsUpTo(RunClusterArnPool, MaxClusters))
ListAnyClusters == ListClustersFrom(SeqsUpTo(ClusterArnPool, MaxClusters))

\* The two early returns of askCluster: [prompt |-> FALSE, cluster |-> the ARN]
\* when the hint is one of the ARNs or one of the friendly names, else
\* [prompt |-> TRUE].
askClusterShortCircuit(hint, arns) ==
    LET clusterNames == clusterNamesOf(arns)
    IN  IF Truthy(hint) /\ includes(arns, Val(hint))
          THEN [prompt |-> FALSE, cluster |-> At(arns, indexOf(arns, Val(hint)))]
        ELSE IF Truthy(hint) /\ includes(clusterNames, Val(hint))
          THEN [prompt |-> FALSE, cluster |-> At(arns, indexOf(clusterNames, Val(hint)))]
        ELSE [prompt |-> TRUE, cluster |-> Undefined]

\* askCluster(clusterArns): without a short circuit the operator is shown the
\* friendly names; the prompt resolves to {cluster: <the chosen choice>}, and
\* run() takes that value as it is.  A prompt with nothing to choose from, or
\* a cancelled one, ends the run.
AskCluster ==
    /\ pc = "askCluster"
    /\ LET arns == Val(clusterArns)
           clusterNames == clusterNamesOf(arns)
           short == askClusterShortCircuit(argv.cluster, arns)
       IN  IF ~short.prompt
             THEN /\ cluster' = short.cluster
                  /\ Goto("listTasks")
                  /\ UNCHANGED <<log, picked, failedAt>>
             ELSE /\ log' = Append(log, Prompt("cluster", clusterNames))
                  /\ \/ /\ Throw("prompt cancelled")
                        /\ failedAt' = Len(log')
                        /\ UNCHANGED <<cluster, picked>>
                     \/ \E i \in 0..(Len(clusterNames) - 1) :
                          /\ picked' = [picked EXCEPT !.cluster = i]
                          /\ cluster' = At(clusterNames, i)
                          /\ Goto("listTasks")
                          /\ UNCHANGED failedAt
    /\ UNCHANGED <<argv, credentials, clusterArns, tasks, res, selectedTask,
                   containers, containerName, execFolder, execPath, fs,
                   childExit, mfaCode>>

----------------------------------------------------------------------------
(* Tasks *)

Fargate == <<"F", "A", "R", "G", "A", "T", "E">>
Ec2 == <<"E", "C", "2">>
TaskDefWebEast == <<"e", ":">> \o TaskDefMarker \o <<"w", ":", "1">>
TaskDefWebWest == <<"w", ":">> \o TaskDefMarker \o <<"w", ":", "1">>

Container(name, managedAgents) == [name |-> name, managedAgents |-> managedAgents]

\* Tasks describeTasks can return.  TaskWebA and TaskWebB render the same
\* label; TaskWebA has one eligible container of two, TaskWebB two of two,
\* the second without a name;
\* TaskNoDef has no task-definition reference and no containers field;
\* TaskNoArn has no ARN and one eligible, unnamed container; TaskEmpty has
\* the empty string as task-definition reference and as ARN; TaskAgentless
\* has a container, but none runs the agent; TaskDisabled has execute-command
\* off.
TaskWebA ==
    [taskArn |-> Some("task-a"), taskDefinitionArn |-> Some(TaskDefWebEast),
     launchType |-> Fargate, enableExecuteCommand |-> TRUE,
     containers |-> Some(<<Container(Some("app"), Some(<<"ExecuteCommandAgent">>)),
                           Container(Some("sidecar"), Undefined)>>)]
TaskWebB ==
    [taskArn |-> Some("task-b"), taskDefinitionArn |-> Some(TaskDefWebWest),
     launchType |-> Fargate, enableExecuteCommand |-> TRUE,
     containers |-> Some(<<Container(Some("app"), Some(<<"ExecuteCommandAgent">>)),
                           Container(Undefined, Some(<<"Other", "ExecuteCommandAgent">>))>>)]
TaskNoDef ==
    [taskArn |-> Some("task-c"), taskDefinitionArn |-> Undefined,
     launchType |-> Ec2, enableExecuteCommand |-> TRUE,
     containers |-> Undefined]
TaskNoArn ==
    [taskArn |-> Undefined, taskDefinitionArn |-> Some(TaskDefWebEast),
     launchType |-> Ec2, enableExecuteCommand |-> TRUE,
     containers |-> Some(<<Container(Undefined, Some(<<"ExecuteCommandAgent">>))>>)]
TaskEmpty ==
    [taskArn |-> Some(""), taskDefinitionArn |-> Some(<<>>),
     launchType |-> Ec2, enableExecuteCommand |-> TRUE,
     containers |-> Some(<<Container(Some("app"), Some(<<"ExecuteCommandAgent">>))>>)]
TaskAgentless ==
    [taskArn |-> Some("task-e"), taskDefinitionArn |-> Some(TaskDefWebEast),
     launchType |-> Ec2, enableExecuteCommand |-> TRUE,
     containers |-> Some(<<Container(Some("app"), Some(<<"Other">>))>>)]
TaskDisabled ==
    [taskArn |-> Some("task-f"), taskDefinitionArn |-> Some(TaskDefWebEast),
     launchType |-> Fargate, enableExecuteCommand |-> FALSE,
     containers |-> Some(<<Container(Some("app"), Some(<<"ExecuteCommandAgent">>))>>)]
TaskPool ==
    {TaskWebA, TaskWebB, TaskNoDef, TaskNoArn, TaskEmpty, TaskAgentless, TaskDisabled}

\* ecs.listTasks in listTasks(cluster): the call fails, or answers without
\* taskArns (listTasks returns undefined and run() throws), or with them.
ListTasks ==
    /\ pc = "listTasks"
    /\ log' = Append(log, Call("listTasks", <<cluster>>))
    /\ \/ /\ Throw("listTasks failed")
          /\ failedAt' = Len(log')
       \/ /\ Throw("No tasks found in cluster")
          /\ failedAt' = Len(log')
       \/ /\ Goto("describeTasks")
          /\ UNCHANGED failedAt
    /\ UNCHANGED <<argv, credentials, clusterArns, cluster, tasks, res, selectedTask,
                   containers, containerName, execFolder, execPath, fs, picked,
                   childExit, mfaCode>>

\* tasks.filter((t) => t.enableExecuteCommand)
enabledTasks(described) == SelectSeq(described, LAMBDA t : t.enableExecuteCommand)

\* ecs.describeTasks in listTasks(cluster): the call fails, or answers
\* without tasks, or with a list, of which the enabled tasks are returned.
DescribeTasks ==
    /\ pc = "describeTasks"
    /\ log' = Append(log, Call("describeTasks", <<cluster>>))
    /\ \/ /\ Throw("describeTasks failed")
          /\ failedAt' = Len(log')
          /\ UNCHANGED tasks
       \/ /\ Throw("No tasks found in cluster")
          /\ failedAt' = Len(log')
          /\ UNCHANGED tasks
       \/ \E described \in DistinctSeqsUpTo(TaskPool, MaxTasks) :
            /\ tasks' = Some(enabledTasks(described))
            /\ Goto("askTasks")
            /\ UNCHANGED failedAt
    /\ UNCHANGED <<argv, credentials, clusterArns, cluster, res, selectedTask,
                   containers, containerName, execFolder, execPath, fs, picked,
                   childExit, mfaCode>>

\* `${taskDefFriendlyName(t.taskDefinitionArn)} - (${t.launchType})`
taskLabel(t) ==
    taskDefFriendlyName(Val(t.taskDefinitionArn))
        \o <<" ", "-", " ", "(">> \o t.launchType \o <<")">>

\* The choices of askTasks: each task is mapped to its label when its
\* task-definition reference is truthy and to undefined otherwise, and the
\* truthy results are kept (a label is never empty), so the tasks without a
\* reference, or with an empty one, are dropped from the list.
taskChoices(ts) ==
    LET mapped == [i \in 1..Len(ts) |->
                      IF Truthy(ts[i].taskDefinitionArn)
                        THEN Some(taskLabel(ts[i]))
                        ELSE Undefined]
        kept == SelectSeq(mapped, Truthy)
    IN  [i \in 1..Len(kept) |-> Val(kept[i])]

\* What askTasks returns when the operator takes the choice at position i:
\* the prompt answers with the label, and index is where that label first
\* occurs among the choices.
askTasksAnswer(ts, i) ==
    LET choices == taskChoices(ts)
        answer == choices[i + 1]
    IN  [task |-> answer, index |-> indexOf(choices, answer)]

\* findExecuteCommandContainer(task)
findExecuteCommandContainer(task) ==
    IF ~IsDefined(task.containers) THEN <<>>
    ELSE LET agents == SelectSeq(Val(task.containers),
                                 LAMBDA c : /\ IsDefined(c.managedAgents)
                                            /\ includes(Val(c.managedAgents), "ExecuteCommandAgent"))
         IN  [i \in 1..Len(agents) |->
                 IF IsDefined(agents[i].name) /\ Val(agents[i].name) # ""
                   THEN Val(agents[i].name)
                   ELSE "container"]

\* Container resolution in run(): a prompt for more than one eligible
\* container, else containers[0], which is undefined for an empty list.
ResolveContainer(task) ==
    LET found == findExecuteCommandContainer(task)
    IN  /\ containers' = found
        /\ IF Len(found) > 1
             THEN Goto("askContainers") /\ UNCHANGED containerName
             ELSE Goto("askShell") /\ containerName' = At(found, 0)

\* askTasks(tasks) and what run() does with its answer up to the next await:
\* selectedTask = tasks[res.index], the check of its ARN, and, without
\* --test, container resolution.
AskTasks ==
    /\ pc = "askTasks"
    /\ log' = Append(log, Prompt("task", taskChoices(Val(tasks))))
    /\ \/ /\ Throw("prompt cancelled")
          /\ failedAt' = Len(log')
          /\ UNCHANGED <<res, picked, selectedTask, containers, containerName>>
       \/ \E i \in 0..(Len(taskChoices(Val(tasks))) - 1) :
            LET answer == askTasksAnswer(Val(tasks), i)
                chosen == At(Val(tasks), answer.index)
            IN  /\ picked' = [picked EXCEPT !.task = i]
                /\ res' = Some(answer)
                /\ selectedTask' = chosen
                /\ IF ~IsDefined(chosen)
                     THEN /\ Throw("Cannot read properties of undefined")
                          /\ failedAt' = Len(log')
                          /\ UNCHANGED <<containers, containerName>>
                   ELSE IF ~TruthyOpaque(Val(chosen).taskArn)
                     THEN /\ Throw("Selected task has no ARN")
                          /\ failedAt' = Len(log')
                          /\ UNCHANGED <<containers, containerName>>
                   ELSE IF argv.test
                     THEN /\ Goto("testDownload")
                          /\ UNCHANGED <<failedAt, containers, containerName>>
                   ELSE /\ ResolveContainer(Val(chosen))
                        /\ UNCHANGED failedAt
    /\ UNCHANGED <<argv, credentials, clusterArns, cluster, tasks,
                   execFolder, execPath, fs, childExit, mfaCode>>

----------------------------------------------------------------------------
(* Child processes *)

\* spawnAwsScript before the child exists: it throws inside the promise
\* executor, which rejects the promise, when there are no credentials;
\* otherwise it spawns the child with the two keys in its environment.
spawnAwsScriptUnchecked(creds) ==
    [spawned |-> TRUE, message |-> "",
     env |-> IF IsDefined(creds)
               THEN [AWS_ACCESS_KEY_ID |-> Val(creds).accessKeyId,
                     AWS_SECRET_ACCESS_KEY |-> Val(creds).secretAccessKey]
               ELSE [AWS_ACCESS_KEY_ID |-> "undefined", AWS_SECRET_ACCESS_KEY |-> "undefined"]]
spawnAwsScript(creds) ==
    IF ~IsDefined(creds)
      THEN [spawned |-> FALSE, message |-> "No AWS credentials to run the script",
            env |-> [AWS_ACCESS_KEY_ID |-> "", AWS_SECRET_ACCESS_KEY |-> ""]]
      ELSE [spawned |-> TRUE, message |-> "",
            env |-> [AWS_ACCESS_KEY_ID |-> Val(creds).accessKeyId,
                     AWS_SECRET_ACCESS_KEY |-> Val(creds).secretAccessKey]]

\* shell.on("close", ...): the promise resolves, whatever the exit code.
onChildCloseChecksCode(code) == IF code = 0 THEN "resolve" ELSE "reject"
onChildClose(code) == "resolve"

\* shell.on("error", ...): the promise rejects.
onChildError == "reject"

\* Exit statuses of a child: success, failure, killed by a signal.
ChildExitCodes == {0, 1, 130}

\* What happens to a running child: it cannot be started ("error"), or it
\* runs and closes with a code.
ChildEvents ==
    {[type |-> "error", code |-> -1]} \cup {[type |-> "close", code |-> c] : c \in ChildExitCodes}

Settles(event) == IF event.type = "error" THEN onChildError ELSE onChildClose(event.code)

----------------------------------------------------------------------------
(* External Validator *)

TempFolder == "/tmp/x"
ScriptPath == "/tmp/x/check-ecs-exec.sh"
OtherPath == "/tmp/x/check-ecs-exec.sh.txt"

\* rmdirSync(folder, {recursive: true}): the folder goes with what it holds.
rmdirRecursive(folder, files) ==
    files \ ({folder} \cup (IF folder = TempFolder THEN {ScriptPath, OtherPath} ELSE {}))

\* The finally block of testConfig: the folder is removed, with what it holds,
\* only when execFolder and execPath are both set and the script exists.
testConfigFinally(folder, path, files) ==
    IF IsDefined(folder) /\ IsDefined(path) /\ Val(path) \in files
      THEN rmdirRecursive(Val(folder), files)
      ELSE files

\* What a rejected download may have written: nothing, the folder, or the
\* folder and a partial file.
DownloadRejectedWith == {{}, {TempFolder}, {TempFolder, ScriptPath}}

\* What a resolved download has written: the folder and the script, or the
\* folder alone, or the folder and a file of another name.
DownloadResolvedWith ==
    {{TempFolder, ScriptPath}, {TempFolder}, {TempFolder, OtherPath}}

\* testConfig up to the spawn of the script: tempfile(), download, chmodSync
\* and the synchronous part of spawnAwsScript.  When the download rejects,
\* execPath is not yet assigned as the finally block runs.  When it resolves,
\* execPath is assigned; chmodSync throws if the script is not there (ENOENT),
\* and may throw when it is.
TestDownload ==
    /\ pc = "testDownload"
    /\ execFolder' = Some(TempFolder)
    /\ \/ \E written \in DownloadRejectedWith :
            /\ log' = Append(log, Call("download", <<TempFolder>>))
            /\ execPath' = Undefined
            /\ fs' = testConfigFinally(execFolder', execPath', fs \cup written)
            /\ Throw("download failed")
            /\ failedAt' = Len(log')
       \/ \E written \in DownloadResolvedWith, chmodThrows \in BOOLEAN :
            LET files == fs \cup written
                launch == spawnAwsScript(credentials)
                downloaded == Append(log, Call("download", <<TempFolder>>))
            IN  /\ execPath' = Some(ScriptPath)
                /\ IF ScriptPath \notin files \/ chmodThrows
                     THEN /\ log' = downloaded
                          /\ fs' = testConfigFinally(execFolder', execPath', files)
                          /\ Throw("chmod failed")
                          /\ failedAt' = Len(log')
                   ELSE IF launch.spawned
                     THEN /\ log' = Append(downloaded,
                                           Spawn(ScriptPath,
                                                 <<cluster, Val(selectedTask).taskArn>>,
                                                 launch.env))
                          /\ fs' = files
                          /\ Goto("testRunning")
                          /\ UNCHANGED failedAt
                   ELSE /\ log' = downloaded
                        /\ fs' = testConfigFinally(execFolder', execPath', files)
                        /\ Throw(launch.message)
                        /\ failedAt' = Len(log')
    /\ UNCHANGED <<argv, credentials, clusterArns, cluster, tasks, res, selectedTask,
                   containers, containerName, picked, childExit, mfaCode>>

\* The script child settles: testConfig's finally block runs, and on a
\* resolved promise run() goes on to container resolution.
TestChild ==
    /\ pc = "testRunning"
    /\ \E event \in ChildEvents :
         /\ childExit' = [childExit EXCEPT !.test =
                             IF event.type = "close" THEN Some(event.code) ELSE Undefined]
         /\ fs' = testConfigFinally(execFolder, execPath, fs)
         /\ failedAt' = IF event.type = "error" THEN Len(log) ELSE failedAt
         /\ IF Settles(event) = "resolve"
              THEN ResolveContainer(Val(selectedTask))
              ELSE /\ Throw("script failed")
                   /\ UNCHANGED <<containers, containerName>>
    /\ UNCHANGED <<argv, credentials, clusterArns, cluster, tasks, res, selectedTask,
                   execFolder, execPath, log, picked, mfaCode>>

----------------------------------------------------------------------------
(* Container, shell and the final launch *)

AskContainers ==
    /\ pc = "askContainers"
    /\ log' = Append(log, Prompt("container", containers))
    /\ \/ /\ Throw("prompt cancelled")
          /\ failedAt' = Len(log')
          /\ UNCHANGED <<containerName, picked>>
       \/ \E i \in 0..(Len(containers) - 1) :
            /\ picked' = [picked EXCEPT !.container = i]
            /\ containerName' = At(containers, i)
            /\ Goto("askShell")
            /\ UNCHANGED failedAt
    /\ UNCHANGED <<argv, credentials, clusterArns, cluster, tasks, res, selectedTask,
                   containers, execFolder, execPath, fs, childExit, mfaCode>>

Shells == <<"/bin/bash", "/bin/sh">>

\* The argument list of the final launch; the command is the shell between
\* double quotes.
execArgs(clusterValue, taskArn, container, shell) ==
    <<"ecs", "execute-command", "--cluster", clusterValue, "--task", taskArn,
      "--container", container, "--interactive", "--command", <<"\"", shell, "\"">> >>

\* askShell() and the synchronous part of the final spawnAwsScript("aws", ...).
AskShell ==
    /\ pc = "askShell"
    /\ \/ /\ log' = Append(log, Prompt("shell", Shells))
          /\ Throw("prompt cancelled")
          /\ failedAt' = Len(log')
       \/ \E i \in 1..Len(Shells) :
            LET launch == spawnAwsScript(credentials)
                asked == Append(log, Prompt("shell", Shells))
            IN  IF launch.spawned
                  THEN /\ log' = Append(asked,
                                        Spawn("aws",
                                              execArgs(cluster, Val(selectedTask).taskArn,
                                                       containerName, Shells[i]),
                                              launch.env))
                       /\ Goto("execRunning")
                       /\ UNCHANGED failedAt
                  ELSE /\ log' = asked
                       /\ Throw(launch.message)
                       /\ failedAt' = Len(log')
    /\ UNCHANGED <<argv, credentials, clusterArns, cluster, tasks, res, selectedTask,
                   containers, containerName, execFolder, execPath, fs, picked,
                   childExit, mfaCode>>

\* The final child settles: run() returns, or catches the rejection.
ExecChild ==
    /\ pc = "execRunning"
    /\ \E event \in ChildEvents :
         /\ childExit' = [childExit EXCEPT !.exec =
                             IF event.type = "close" THEN Some(event.code) ELSE Undefined]
         /\ failedAt' = IF event.type = "error" THEN Len(log) ELSE failedAt
         /\ IF Settles(event) = "resolve" THEN Return ELSE Throw("aws failed")
    /\ UNCHANGED <<argv, credentials, clusterArns, cluster, tasks, res, selectedTask,
                   containers, containerName, execFolder, execPath, fs, log, picked,
                   mfaCode>>

----------------------------------------------------------------------------

Next ==
    \/ AskMFA
    \/ MfaListDevices
    \/ MfaGetSessionToken
    \/ ListClusters
    \/ AskCluster
    \/ ListTasks
    \/ DescribeTasks
    \/ AskTasks
    \/ TestDownload
    \/ TestChild
    \/ AskContainers
    \/ AskShell
    \/ ExecChild

Spec == Init /\ [][Next]_vars

\* Cluster resolution alone, over the wide pools of ARNs and hints, up to the
\* first call that receives the resolved cluster.
NextCluster ==
    \/ ListAnyClusters
    \/ AskCluster
    \/ ListTasks

SpecCluster == InitCluster /\ [][NextCluster]_vars

----------------------------------------------------------------------------
(* Properties *)

LogIndices == 1..Len(log)
IsSpawnOf(i, cmd) == log[i].kind = "spawn" /\ log[i].name = cmd

\* The position of the prompt, call or spawn named so in the log, 0 if none.
PositionOf(kind, name) ==
    IF Started(kind, name)
      THEN CHOOSE i \in LogIndices : log[i].kind = kind /\ log[i].name = name
      ELSE 0

\* C1: when the operator chose the cluster at a prompt, the cluster value the
\* run holds, and passes to listTasks, to the validator script and to the
\* final launch, is the ARN at the chosen position of clusterArns.
C1_PromptedClusterIsArn ==
    picked.cluster >= 0 =>
        LET arn == At(Val(clusterArns), picked.cluster)
        IN  /\ cluster = arn
            /\ \A i \in LogIndices :
                 /\ (log[i].kind = "call" /\ log[i].name = "listTasks") => log[i].args[1] = arn
                 /\ IsSpawnOf(i, ScriptPath) => log[i].args[1] = arn
                 /\ IsSpawnOf(i, "aws") => log[i].args[4] = arn

\* The eligible containers of the selected task, and whether run() has gone
\* past container resolution.
Eligible == findExecuteCommandContainer(Val(selectedTask))
PastContainerResolution ==
    \/ pc \in {"askContainers", "askShell", "execRunning"}
    \/ Started("prompt", "container")
    \/ Started("prompt", "shell")

\* Container resolution chose without asking the operator.
AutoSelected ==
    /\ PastContainerResolution
    /\ pc # "askContainers"
    /\ ~Started("prompt", "container")

\* C2: the container is selected without a prompt if and only if exactly one
\* container is eligible, and then it is that container; two or more lead to
\* the container prompt; with none the run fails before the shell prompt and
\* the final launch.
C2_ContainerResolution ==
    (IsDefined(selectedTask) /\ TruthyOpaque(Val(selectedTask).taskArn)) =>
        /\ PastContainerResolution =>
              /\ AutoSelected <=> (Len(Eligible) = 1)
              /\ AutoSelected => containerName = Some(Eligible[1])
              /\ Len(Eligible) >= 2 => (pc = "askContainers" \/ Started("prompt", "container"))
        /\ Len(Eligible) = 0 =>
              /\ ~PastContainerResolution
              /\ ~Started("spawn", "aws")

\* The tasks behind the displayed choices, in display order.
displayedTasks(ts) == SelectSeq(ts, LAMBDA t : Truthy(t.taskDefinitionArn))

\* C3: the selected task, whose ARN goes to the validator and to the final
\* launch, is the task behind the choice at the position the operator picked.
C3_SelectedTaskIsPickedTask ==
    picked.task >= 0 =>
        LET shown == At(displayedTasks(Val(tasks)), picked.task)
        IN  /\ selectedTask = shown
            /\ \A i \in LogIndices :
                 /\ IsSpawnOf(i, ScriptPath) => log[i].args[2] = Val(shown).taskArn
                 /\ IsSpawnOf(i, "aws") => log[i].args[6] = Val(shown).taskArn

\* Cluster resolution has answered.
ClusterResolved == IsDefined(clusterArns) /\ pc # "askCluster"

\* The hint equals one of the ARNs or one of their friendly names.
HintMatches(hint, arns) ==
    \E i \in 1..Len(arns) : arns[i] = hint \/ clusterFriendlyName(arns[i]) = hint

\* The ARN the hint stands for: the hint itself when it is one of the ARNs,
\* else the ARN at the first position whose friendly name is the hint.
HintedArn(hint, arns) ==
    IF \E i \in 1..Len(arns) : arns[i] = hint
      THEN hint
      ELSE arns[CHOOSE i \in 1..Len(arns) :
                    /\ clusterFriendlyName(arns[i]) = hint
                    /\ \A j \in 1..(i - 1) : clusterFriendlyName(arns[j]) # hint]

TestConfigExited == IsDefined(execFolder) /\ pc # "testRunning"

\* C5: once testConfig has returned or thrown, the temporary folder does not
\* exist.
C5_TempFolderRemoved == TestConfigExited => TempFolder \notin fs

\* C6: once a step has failed the run is over with nothing started after the
\* failing step, no step has been started twice, and unless the failing step
\* is the final launch itself, the final child was never spawned.
C6_FailureIsTerminal ==
    /\ failedAt > 0 =>
          /\ pc = "done"
          /\ result = Some(1)
          /\ Len(log) = failedAt
          /\ \A i \in 1..(failedAt - 1) : ~IsSpawnOf(i, "aws")
    /\ \A i, j \in LogIndices :
          (i < j) => ~(log[i].kind = log[j].kind /\ log[i].name = log[j].name)

\* The validator script could not be started, and the run ended there.
C6_Witness ==
    /\ pc = "done"
    /\ failedAt = Len(log)
    /\ failedAt > 0
    /\ IsSpawnOf(failedAt, ScriptPath)
    /\ ~Started("prompt", "shell")

\* C7: a launch without active credentials, of the validator script or of
\* the final command, ends the run with an error and spawns no child.
C7_NoSpawnWithoutCredentials ==
    [][(~IsDefined(credentials) /\ pc \in {"testDownload", "askShell"}) =>
          /\ pc' = "done"
          /\ result' = Some(1)
          /\ \A i \in 1..Len(log') : log'[i].kind # "spawn"]_vars

\* The operator chose a shell and the final launch was refused for lack of
\* credentials.
C7_Witness ==
    /\ pc = "done"
    /\ ~IsDefined(credentials)
    /\ Started("prompt", "shell")
    /\ err = "No AWS credentials to run the script"
    /\ ~Started("spawn", "aws")

\* C8: when the validator script closes, with whatever code, run() goes on to
\* container resolution with no failure recorded; and a run that ended in
\* failure after the script closed failed at a later step.
C8_ScriptExitIsNotFatal ==
    /\ [][(pc = "testRunning" /\ IsDefined(childExit'.test)) =>
             /\ pc' \in {"askContainers", "askShell"}
             /\ containers' = findExecuteCommandContainer(Val(selectedTask))
             /\ result' = Undefined
             /\ failedAt' = 0]_vars
    /\ [](IsDefined(childExit.test) /\ pc = "done" /\ result = Some(1) =>
             failedAt > PositionOf("spawn", ScriptPath))

\* The script exited non-zero and the final command was launched.
C8_Witness ==
    /\ IsDefined(childExit.test)
    /\ Val(childExit.test) # 0
    /\ Started("spawn", "aws")
    /\ pc = "done"
    /\ result = Undefined

\* C9: the process exits with 0 after a completed session and with 1 after a
\* caught failure.
C9_ExitCodeReportsFailure ==
    pc = "done" => exitCode = (IF result = Some(1) THEN 1 ELSE 0)

\* C10: the refresh is invoked only with --mfa and a non-empty code; the
\* active credentials change only in the step in which getSessionToken
\* answers with credentials, and then they are exactly the new key pair.
C10_CredentialsChangeOnlyOnMfaSuccess ==
    [][/\ Started("call", "listMFADevices")' => (argv.mfa /\ mfaCode' # "")
       /\ credentials' # credentials =>
            /\ pc = "mfaGetSessionToken"
            /\ pc' = "listClusters"
            /\ failedAt' = 0
            /\ credentials' = Some([accessKeyId |-> StsCredentials.AccessKeyId,
                                    secretAccessKey |-> StsCredentials.SecretAccessKey])
       /\ (pc \in {"mfaListDevices", "mfaGetSessionToken"} /\ failedAt' > 0) =>
            credentials' = credentials]_vars

\* getSessionToken was refused while ambient credentials were active: they
\* still are.
C10_Witness ==
    /\ pc = "done"
    /\ Started("call", "getSessionToken")
    /\ failedAt = Len(log)
    /\ credentials = Some(AmbientCredentials)

====
